---- MODULE Spec2Model ----
\* Model of Makefile.js (shelljs/make build file): one process run that
\* invokes one registered target and everything that target calls.
EXTENDS Integers, Sequences, FiniteSets, TLC

\* ---------------------------------------------------------------------
\* Bounds
\* ---------------------------------------------------------------------
\* largest number of rule implementation files found under lib/rules/
MaxRules == 2
\* largest number of external commands that exit non-zero in one run
MaxFail == 1

\* ---------------------------------------------------------------------
\* Settings and inputs
\* ---------------------------------------------------------------------
PERF_MULTIPLIER == 7500000

\* values of os.cpus()[0].speed; they give the limits 150, 100 and 200
CpuSpeeds == {50000, 75000, 37500}
\* elapsed milliseconds of one performance run
Durations == {90, 100, 120, 150, 190, 200, 210}
\* exit statuses of an external command
ExitCodes == {0, 1}

\* text is a sequence of words; NL stands for a line feed
NL == "\n"
\* in place of the content of a file that does not exist
Absent == <<"(no file)">>

\* lines "* %s (%an)" that git log prints
FixLine == <<"*", "Fix", "a", "(x)">>
DocsLine == <<"*", "Docs", "b", "(y)">>
PullLine == <<"*", "Merge", "pull", "request", "#1", "(x)">>
BranchLine == <<"*", "Merge", "branch", "c", "(y)">>

\* what "git log --pretty=format:..." can print
LogOutputs ==
    { <<>>,
      FixLine \o <<NL>> \o PullLine \o <<NL>> \o BranchLine
          \o <<NL>> \o DocsLine }

\* what "git tag" can print: no tag, one, two or three tags
TagOutputs ==
    { <<>>,
      <<"v1.0.0", NL>>,
      <<"v1.0.0", NL, "v1.1.0", NL>>,
      <<"v0.9.0", NL, "v1.0.0", NL, "v1.1.0", NL>> }

\* dateformat(now, "mmmm d, yyyy")
Dates == {"March 3, 2014"}

\* CHANGELOG.md before the run, with one earlier entry
OldChangelogs ==
    { <<"v0.9.0", "-", "January 1, 2014", NL, NL, "*", "Old", "(z)", NL>> }

\* the site's documentation directory and the plain files docs/ can hold
DocsDir == "../eslint.github.io/docs"
DocNames == {"README.md", "a.md"}
\* the files the site's directory can come to hold
SiteNames == DocNames \cup {"index.md"}

\* the content of each file of docs/
DocText(name) ==
    CASE name = "README.md" ->
            <<"(", "README", ".", "md)", "(", "README", ".", "md)">>
      [] name = "a.md" -> <<"see", "(", "b", ".", "md)">>

\* the text gensite puts in front of every file
FrontMatter == <<"---title: ESLint layout: doc---">>

\* names registered on the target object
Targets == {"all", "lint", "test", "docs", "gensite", "browserify",
            "changelog", "checkRuleFiles", "perf", "patch", "minor", "major"}
ReleaseTypes == {"patch", "minor", "major"}

VARIABLES
    task,       \* the target named on the command line
    fatal,      \* whether the shelljs that is loaded ends the process when
                \* a synchronous exec returns a non-zero code; this file
                \* never tests the code itself, so both kinds are modelled
    stack,      \* call stack, innermost frame last
    log,        \* external commands run so far, with their exit codes
    fails,      \* number of commands that exited non-zero
    status,     \* "running" or "exited"
    exitCode,   \* process exit code once exited
    ruleFiles,  \* checkRuleFiles: the rule files found, rules 1..ruleFiles
    docs,       \* rules with docs/rules/<basename>.md
    index,      \* rules whose "(<basename>.md)" occurs in rulesIndexText
    conf,       \* keys of confRules
    tests,      \* rules with tests/lib/rules/<basename>.js
    vi,         \* position of the forEach in checkRuleFiles
    errors,     \* checkRuleFiles' error counter
    reported,   \* console.error messages of checkRuleFiles
    max,        \* perf: the limit
    results,    \* perf: the results array
    inflight,   \* perf: runs started whose callback has not run yet
    started,    \* perf: runs started so far, in order
    echoed,     \* perf: the times of the "Performance Run #n" echoes
    budget,     \* perf: the final budget echo, <<>> before it
    queue,      \* targets named on the command line that are still to run
    tagOut,     \* changelog: what "git tag" printed
    rangeTags,  \* changelog: the rangeTags array
    logOut,     \* changelog: what "git log" printed
    tmpFile,    \* content of CHANGELOG.tmp, Absent when there is no such file
    mdTmpFile,  \* content of CHANGELOG.md.tmp, Absent likewise
    mdFile,     \* content of CHANGELOG.md
    prev,       \* the changelog run of the previous process, <<>> if none
    siteList,   \* gensite: what find(docsDir) yields, in its order
    siteOrig,   \* gensite: the files of docsDir as copied from docs/
    siteFiles   \* gensite: the files of docsDir now

vars == <<task, fatal, stack, log, fails, status, exitCode, ruleFiles, docs,
          index, conf, tests, vi, errors, reported, max, results, inflight,
          started, echoed, budget, queue, tagOut, rangeTags, logOut, tmpFile,
          mdTmpFile, mdFile, prev, siteList, siteOrig, siteFiles>>

fsVars == <<ruleFiles, docs, index, conf, tests>>
ruleVars == <<vi, errors, reported>>
perfVars == <<max, results, inflight, started, echoed, budget>>
clVars == <<tagOut, rangeTags, logOut, tmpFile, mdTmpFile, mdFile>>
siteVars == <<siteList, siteOrig, siteFiles>>

\* ---------------------------------------------------------------------
\* Statements of the task bodies
\* ---------------------------------------------------------------------
Call(fn, arg) == [op |-> "call", fn |-> fn, arg |-> arg]
Exec(cmd) == [op |-> "exec", fn |-> cmd, arg |-> ""]
Stmt(op) == [op |-> op, fn |-> "", arg |-> ""]

\* function release(type)
ReleaseBody(type) ==
    << Call("test", ""),
       Exec("npm version " \o type),
       Call("changelog", ""),
       Exec("git push origin master --tags"),
       Exec("npm publish"),
       Call("gensite", "") >>

\* lint calling back into test
LintBodyCallsTest ==
    << Exec("jsonlint"), Exec("eslint lib"), Exec("eslint tests"),
       Call("test", "") >>

LintBody ==
    << Exec("jsonlint"), Exec("eslint lib"), Exec("eslint tests") >>

\* test with every invoked task moved in front of its own commands
TestBodySubtasksFirst ==
    << Call("lint", ""),
       Call("checkRuleFiles", ""),
       Call("browserify", ""),
       Exec("istanbul cover"),
       Exec("istanbul check-coverage"),
       Exec("mocha-phantomjs") >>

TestBody ==
    << Call("lint", ""),
       Call("checkRuleFiles", ""),
       Exec("istanbul cover"),
       Exec("istanbul check-coverage"),
       Call("browserify", ""),
       Exec("mocha-phantomjs") >>

GensiteBody ==
    << Stmt("siteCopy"),
       Stmt("siteRewrite"),
       Exec("git add -A ."),
       Exec("git commit"),
       Exec("git fetch origin && git rebase origin/master"),
       Exec("git push origin master") >>

ChangelogBody ==
    << Exec("git tag"),
       Stmt("clHeader"),
       Exec("git log"),
       Stmt("clEntries"),
       Stmt("clCat"),
       Stmt("clMove"),
       Exec("git add CHANGELOG.md"),
       Exec("git commit --amend --no-edit") >>

CheckRuleFilesBody ==
    << Stmt("ruleInit"), Stmt("ruleLoop"), Stmt("ruleExit") >>

PerfBody == << Stmt("perfStart") >>

Body(fn, arg) ==
    CASE fn = "all" -> << Call("test", "") >>
      [] fn = "lint" -> LintBody
      [] fn = "test" -> TestBody
      [] fn = "docs" -> << Exec("jsdoc") >>
      [] fn = "gensite" -> GensiteBody
      [] fn = "browserify" -> << Exec("browserify") >>
      [] fn = "changelog" -> ChangelogBody
      [] fn = "checkRuleFiles" -> CheckRuleFilesBody
      [] fn = "perf" -> PerfBody
      [] fn \in ReleaseTypes -> << Call("release", fn) >>
      [] fn = "release" -> ReleaseBody(arg)

Frame(fn, arg) == [fn |-> fn, arg |-> arg, pc |-> 1]

Top == stack[Len(stack)]
AtEnd == Top.pc > Len(Body(Top.fn, Top.arg))
Cur == Body(Top.fn, Top.arg)[Top.pc]
Active == status = "running" /\ stack # <<>>
Advance == [stack EXCEPT ![Len(stack)].pc = @ + 1]

\* ---------------------------------------------------------------------
\* Initial state: the script is loaded and one target is about to run
\* ---------------------------------------------------------------------
\* the state of a process whose script has just been loaded
Loaded ==
    /\ fatal \in BOOLEAN
    /\ stack = << Frame(task, "") >>
    /\ prev = <<>>
    /\ mdFile \in OldChangelogs
    /\ tmpFile = Absent
    /\ mdTmpFile = Absent
    /\ tagOut = <<>>
    /\ rangeTags = <<>>
    /\ logOut = <<>>
    /\ siteList = <<>>
    /\ siteOrig = [n \in SiteNames |-> Absent]
    /\ siteFiles = [n \in SiteNames |-> Absent]
    /\ log = <<>>
    /\ fails = 0
    /\ status = "running"
    /\ exitCode = 0
    /\ ruleFiles = 0
    /\ docs = {}
    /\ index = {}
    /\ conf = {}
    /\ tests = {}
    /\ vi = 0
    /\ errors = 0
    /\ reported = <<>>
    /\ max = 0
    /\ results = <<>>
    /\ inflight = {}
    /\ started = <<>>
    /\ echoed = <<>>
    /\ budget = <<>>

Init ==
    /\ task \in Targets
    /\ queue = <<>>
    /\ Loaded

\* ---------------------------------------------------------------------
\* Task invocation
\* ---------------------------------------------------------------------
\* target.x() / release(type): run the callee's body, then come back
CallTask ==
    /\ Active /\ ~AtEnd /\ Cur.op = "call"
    /\ stack' = Append(Advance, Frame(Cur.fn, Cur.arg))
    /\ UNCHANGED <<task, fatal, log, fails, status, exitCode>>
    /\ UNCHANGED <<fsVars, ruleVars, perfVars>>
    /\ UNCHANGED <<queue, clVars, prev, siteVars>>

\* end of a function body
Return ==
    /\ Active /\ AtEnd
    /\ stack' = SubSeq(stack, 1, Len(stack) - 1)
    /\ UNCHANGED <<task, fatal, log, fails, status, exitCode>>
    /\ UNCHANGED <<fsVars, ruleVars, perfVars>>
    /\ UNCHANGED <<queue, clVars, prev, siteVars>>

\* exec(cmd) / nodeCLI.exec(...), synchronous; the result is discarded by
\* every caller, so only shelljs itself can end the run on a non-zero code
ExecHalts(code) == fatal /\ code # 0

ExecSync ==
    /\ Active /\ ~AtEnd /\ Cur.op = "exec"
    /\ \E code \in ExitCodes :
        /\ code # 0 => fails < MaxFail
        /\ fails' = IF code # 0 THEN fails + 1 ELSE fails
        /\ log' = Append(log, [cmd |-> Cur.fn, code |-> code, by |-> Top.fn])
        /\ IF ExecHalts(code)
             THEN /\ status' = "exited"
                  /\ exitCode' = 1
                  /\ stack' = <<>>
             ELSE /\ stack' = Advance
                  /\ UNCHANGED <<status, exitCode>>
    /\ UNCHANGED <<task, fatal>>
    /\ UNCHANGED <<fsVars, ruleVars, perfVars>>
    /\ UNCHANGED <<queue, clVars, prev, siteVars>>

\* ---------------------------------------------------------------------
\* target.checkRuleFiles
\* ---------------------------------------------------------------------
\* var ruleFiles = find(...), rulesIndexText = cat(...), confRules, errors = 0
\* (the index is read for a rule only in the else branch of the documentation
\* test, so only its links to documentation files that exist are drawn)
RuleInit ==
    /\ Active /\ ~AtEnd /\ Cur.op = "ruleInit"
    /\ \E n \in 0..MaxRules :
        /\ ruleFiles' = n
        /\ docs' \in SUBSET (1..n)
        /\ index' \in SUBSET docs'
        /\ conf' \in SUBSET (1..n)
        /\ tests' \in SUBSET (1..n)
    /\ vi' = 1
    /\ errors' = 0
    /\ reported' = <<>>
    /\ stack' = Advance
    /\ UNCHANGED <<task, fatal, log, fails, status, exitCode, perfVars>>
    /\ UNCHANGED <<queue, clVars, prev, siteVars>>

\* the index check made whether or not the documentation file exists
DocMessagesBoth(r) ==
    (IF r \notin docs THEN << <<"documentation", r>> >> ELSE <<>>)
    \o (IF r \notin index THEN << <<"link", r>> >> ELSE <<>>)

\* the console.error calls of one pass of the forEach callback
DocMessages(r) ==
    IF r \notin docs THEN << <<"documentation", r>> >>
    ELSE IF r \notin index THEN << <<"link", r>> >>
    ELSE <<>>

\* the setting check with its negation lost
ConfMessagesInverted(r) == IF r \in conf THEN << <<"setting", r>> >> ELSE <<>>

ConfMessages(r) == IF r \notin conf THEN << <<"setting", r>> >> ELSE <<>>

TestMessages(r) == IF r \notin tests THEN << <<"tests", r>> >> ELSE <<>>

RuleMessages(r) == DocMessages(r) \o ConfMessages(r) \o TestMessages(r)

\* the forEach callback leaving the process at the first error it counts
RuleCheckFailFast ==
    /\ Active /\ ~AtEnd /\ Cur.op = "ruleLoop"
    /\ vi <= ruleFiles
    /\ reported' = reported \o RuleMessages(vi)
    /\ errors' = errors + Len(RuleMessages(vi))
    /\ vi' = vi + 1
    /\ IF RuleMessages(vi) # <<>>
         THEN /\ status' = "exited"
              /\ exitCode' = 1
              /\ stack' = <<>>
         ELSE UNCHANGED <<stack, status, exitCode>>
    /\ UNCHANGED <<task, fatal, log, fails>>
    /\ UNCHANGED <<fsVars, perfVars>>
    /\ UNCHANGED <<queue, clVars, prev, siteVars>>

\* ruleFiles.forEach(function(filename) {...}), one file per step
RuleCheck ==
    /\ Active /\ ~AtEnd /\ Cur.op = "ruleLoop"
    /\ vi <= ruleFiles
    /\ reported' = reported \o RuleMessages(vi)
    /\ errors' = errors + Len(RuleMessages(vi))
    /\ vi' = vi + 1
    /\ UNCHANGED <<task, fatal, stack, log, fails, status, exitCode>>
    /\ UNCHANGED <<fsVars, perfVars>>
    /\ UNCHANGED <<queue, clVars, prev, siteVars>>

\* the forEach is over
RuleLoopEnd ==
    /\ Active /\ ~AtEnd /\ Cur.op = "ruleLoop"
    /\ vi > ruleFiles
    /\ stack' = Advance
    /\ UNCHANGED <<task, fatal, log, fails, status, exitCode>>
    /\ UNCHANGED <<fsVars, ruleVars, perfVars>>
    /\ UNCHANGED <<queue, clVars, prev, siteVars>>

\* if (errors) { exit(1); }
RuleFails == errors # 0

RuleExit ==
    /\ Active /\ ~AtEnd /\ Cur.op = "ruleExit"
    /\ IF RuleFails
         THEN /\ status' = "exited"
              /\ exitCode' = 1
              /\ stack' = <<>>
         ELSE /\ stack' = Advance
              /\ UNCHANGED <<status, exitCode>>
    /\ UNCHANGED <<task, fatal, log, fails>>
    /\ UNCHANGED <<fsVars, ruleVars, perfVars>>
    /\ UNCHANGED <<queue, clVars, prev, siteVars>>

\* ---------------------------------------------------------------------
\* target.perf
\* ---------------------------------------------------------------------
\* position at which v goes into the ascending sequence s
RECURSIVE InsertAsc(_, _)
InsertAsc(s, v) ==
    IF s = <<>> THEN <<v>>
    ELSE IF v < Head(s) THEN <<v>> \o s
    ELSE <<Head(s)>> \o InsertAsc(Tail(s), v)

\* the array left in the order of measurement
Unsorted(s) == s

\* results.sort(function(a, b) { return a - b; })
RECURSIVE SortAsc(_)
SortAsc(s) == IF s = <<>> THEN <<>> ELSE InsertAsc(SortAsc(Tail(s)), Head(s))

\* results[1] > max, on the sorted array (JavaScript index 1)
OverBudget(sorted, limit) == sorted[2] > limit

\* the %d the budget echo is given first
BudgetShown(actual, sorted) == actual

PerfCmd == "eslint tests/performance/jshint.js"

\* the run's exit code reaches the callback, which declares no parameter
Completed(code) == [cmd |-> PerfCmd, code |-> code, by |-> "perf"]

\* perf with run 2 started next to run 1 instead of in run 1's callback
PerfStartTwoRuns ==
    /\ Active /\ ~AtEnd /\ Cur.op = "perfStart"
    /\ \E cpuSpeed \in CpuSpeeds : max' = PERF_MULTIPLIER \div cpuSpeed
    /\ results' = <<>>
    /\ inflight' = {1, 2}
    /\ started' = <<1, 2>>
    /\ echoed' = <<>>
    /\ budget' = <<>>
    /\ stack' = Advance
    /\ UNCHANGED <<task, fatal, log, fails, status, exitCode>>
    /\ UNCHANGED <<fsVars, ruleVars>>
    /\ UNCHANGED <<queue, clVars, prev, siteVars>>

\* the synchronous part: settings, echo, exec(cmd, {silent: true}, callback)
PerfStart ==
    /\ Active /\ ~AtEnd /\ Cur.op = "perfStart"
    /\ \E cpuSpeed \in CpuSpeeds : max' = PERF_MULTIPLIER \div cpuSpeed
    /\ results' = <<>>
    /\ inflight' = {1}
    /\ started' = <<1>>
    /\ echoed' = <<>>
    /\ budget' = <<>>
    /\ stack' = Advance
    /\ UNCHANGED <<task, fatal, log, fails, status, exitCode>>
    /\ UNCHANGED <<fsVars, ruleVars>>
    /\ UNCHANGED <<queue, clVars, prev, siteVars>>

\* callback of run 1: record the time, start run 2
Run1Callback ==
    /\ status = "running" /\ stack = <<>> /\ queue = <<>>
    /\ 1 \in inflight
    /\ \E actual \in Durations, code \in ExitCodes :
        /\ code # 0 => fails < MaxFail
        /\ fails' = IF code # 0 THEN fails + 1 ELSE fails
        /\ log' = Append(log, Completed(code))
        /\ results' = Append(results, actual)
        /\ echoed' = Append(echoed, actual)
    /\ inflight' = (inflight \ {1}) \cup {2}
    /\ started' = Append(started, 2)
    /\ UNCHANGED <<task, fatal, stack, status, exitCode, max, budget>>
    /\ UNCHANGED <<fsVars, ruleVars>>
    /\ UNCHANGED <<queue, clVars, prev, siteVars>>

\* callback of run 2: record the time, start run 3
Run2Callback ==
    /\ status = "running" /\ stack = <<>> /\ queue = <<>>
    /\ 2 \in inflight
    /\ \E actual \in Durations, code \in ExitCodes :
        /\ code # 0 => fails < MaxFail
        /\ fails' = IF code # 0 THEN fails + 1 ELSE fails
        /\ log' = Append(log, Completed(code))
        /\ results' = Append(results, actual)
        /\ echoed' = Append(echoed, actual)
    /\ inflight' = (inflight \ {2}) \cup {3}
    /\ started' = Append(started, 3)
    /\ UNCHANGED <<task, fatal, stack, status, exitCode, max, budget>>
    /\ UNCHANGED <<fsVars, ruleVars>>
    /\ UNCHANGED <<queue, clVars, prev, siteVars>>

\* callback of run 3: record the time, sort, compare, echo the budget line
Run3Callback ==
    /\ status = "running" /\ stack = <<>> /\ queue = <<>>
    /\ 3 \in inflight
    /\ \E actual \in Durations, code \in ExitCodes :
        /\ code # 0 => fails < MaxFail
        /\ fails' = IF code # 0 THEN fails + 1 ELSE fails
        /\ log' = Append(log, Completed(code))
        /\ echoed' = Append(echoed, actual)
        /\ results' = SortAsc(Append(results, actual))
        /\ IF OverBudget(results', max)
             THEN /\ budget' = [kind |-> "exceeded", limit |-> max,
                                shown |-> BudgetShown(actual, results')]
                  /\ status' = "exited"
                  /\ exitCode' = 1
             ELSE /\ budget' = [kind |-> "ok", limit |-> max,
                                shown |-> BudgetShown(actual, results')]
                  /\ UNCHANGED <<status, exitCode>>
    /\ inflight' = inflight \ {3}
    /\ UNCHANGED <<task, fatal, stack, max, started>>
    /\ UNCHANGED <<fsVars, ruleVars>>
    /\ UNCHANGED <<queue, clVars, prev, siteVars>>

\* ---------------------------------------------------------------------
\* Text
\* ---------------------------------------------------------------------
\* position of the first line feed of a text that has one
FirstNL(text) == CHOOSE i \in 1..Len(text) :
    text[i] = NL /\ \A j \in 1..(i - 1) : text[j] # NL

\* String.prototype.split(/\n/g), also split(/\s/g) of the tag list
RECURSIVE SplitLines(_)
SplitLines(text) ==
    IF \A i \in 1..Len(text) : text[i] # NL THEN << text >>
    ELSE << SubSeq(text, 1, FirstNL(text) - 1) >>
         \o SplitLines(SubSeq(text, FirstNL(text) + 1, Len(text)))

\* Array.prototype.join("\n")
RECURSIVE JoinLines(_)
JoinLines(lines) ==
    IF lines = <<>> THEN <<>>
    ELSE IF Len(lines) = 1 THEN lines[1]
    ELSE lines[1] \o <<NL>> \o JoinLines(Tail(lines))

\* String.prototype.trim()
RECURSIVE Trim(_)
Trim(text) ==
    IF text = <<>> THEN text
    ELSE IF Head(text) = NL THEN Trim(Tail(text))
    ELSE IF text[Len(text)] = NL THEN Trim(SubSeq(text, 1, Len(text) - 1))
    ELSE text

\* Array.prototype.slice(start)
SliceFrom(a, start) ==
    LET from == IF start < 0
                  THEN (IF Len(a) + start < 0 THEN 0 ELSE Len(a) + start)
                  ELSE (IF start > Len(a) THEN Len(a) ELSE start)
    IN SubSeq(a, from + 1, Len(a))

\* the element one place before the one asked for
ElemTextBefore(a, i) ==
    IF i >= 1 /\ i - 1 < Len(a) THEN a[i] ELSE <<"undefined">>

\* a[i] used in a string concatenation (JavaScript index)
ElemText(a, i) == IF i < Len(a) THEN a[i + 1] ELSE <<"undefined">>

\* line.indexOf(words) !== -1
Contains(line, words) ==
    \E i \in 1..Len(line) :
        /\ i + Len(words) - 1 <= Len(line)
        /\ SubSeq(line, i, i + Len(words) - 1) = words

\* cat(a, b) of shelljs: every file followed by a line feed, the last line
\* feed taken off
Cat2(a, b) ==
    LET all == a \o <<NL>> \o b \o <<NL>>
    IN SubSeq(all, 1, Len(all) - 1)

\* ---------------------------------------------------------------------
\* target.changelog
\* ---------------------------------------------------------------------
\* the array index of the tag that goes into the header
HeaderIndex == 1

\* the filter with the branch merges forgotten
KeepLinePullOnly(line) == ~Contains(line, <<"Merge", "pull", "request">>)

\* the filter callback of logs.filter
KeepLine(line) ==
    /\ ~Contains(line, <<"Merge", "pull", "request">>)
    /\ ~Contains(line, <<"Merge", "branch">>)

\* the header step leaving the process when there are not two tags
ClHeaderGuarded ==
    /\ Active /\ ~AtEnd /\ Cur.op = "clHeader"
    /\ \E out \in TagOutputs, timestamp \in Dates :
        LET tags == SplitLines(Trim(out))
            range == SliceFrom(tags, Len(tags) - 2)
        IN /\ tagOut' = out
           /\ rangeTags' = range
           /\ IF Len(SelectSeq(out, LAMBDA w : w # NL)) < 2
                THEN /\ status' = "exited"
                     /\ exitCode' = 1
                     /\ stack' = <<>>
                     /\ UNCHANGED tmpFile
                ELSE /\ tmpFile' = ElemText(range, HeaderIndex)
                                     \o <<"-", timestamp>> \o <<NL>>
                     /\ stack' = Advance
                     /\ UNCHANGED <<status, exitCode>>
    /\ UNCHANGED <<task, fatal, log, fails>>
    /\ UNCHANGED <<logOut, mdTmpFile, mdFile>>
    /\ UNCHANGED <<fsVars, ruleVars, perfVars, queue, prev, siteVars>>

\* tags, rangeTags, now, timestamp; the header goes to CHANGELOG.tmp
ClHeader ==
    /\ Active /\ ~AtEnd /\ Cur.op = "clHeader"
    /\ \E out \in TagOutputs, timestamp \in Dates :
        LET tags == SplitLines(Trim(out))
            range == SliceFrom(tags, Len(tags) - 2)
        IN /\ tagOut' = out
           /\ rangeTags' = range
           /\ tmpFile' = ElemText(range, HeaderIndex)
                            \o <<"-", timestamp>> \o <<NL>>
    /\ stack' = Advance
    /\ UNCHANGED <<task, fatal, log, fails, status, exitCode>>
    /\ UNCHANGED <<logOut, mdTmpFile, mdFile>>
    /\ UNCHANGED <<fsVars, ruleVars, perfVars, queue, prev, siteVars>>

\* logs: split, filter, push, unshift, join, toEnd("CHANGELOG.tmp")
ClEntries ==
    /\ Active /\ ~AtEnd /\ Cur.op = "clEntries"
    /\ \E out \in LogOutputs :
        LET logs == SelectSeq(SplitLines(out), KeepLine)
        IN /\ logOut' = out
           /\ tmpFile' = tmpFile \o JoinLines(<< <<>> >> \o logs \o << <<>> >>)
    /\ stack' = Advance
    /\ UNCHANGED <<task, fatal, log, fails, status, exitCode>>
    /\ UNCHANGED <<tagOut, rangeTags, mdTmpFile, mdFile>>
    /\ UNCHANGED <<fsVars, ruleVars, perfVars, queue, prev, siteVars>>

\* the switch leaving out an entry the file already starts with
SwitchedOnce(entry, old) ==
    IF Len(entry) <= Len(old) /\ SubSeq(old, 1, Len(entry)) = entry
      THEN old ELSE Cat2(entry, old)

\* what goes into CHANGELOG.md.tmp
Switched(entry, old) == Cat2(entry, old)

\* cat("CHANGELOG.tmp", "CHANGELOG.md").to("CHANGELOG.md.tmp")
ClCat ==
    /\ Active /\ ~AtEnd /\ Cur.op = "clCat"
    /\ mdTmpFile' = Switched(tmpFile, mdFile)
    /\ stack' = Advance
    /\ UNCHANGED <<task, fatal, log, fails, status, exitCode>>
    /\ UNCHANGED <<tagOut, rangeTags, logOut, tmpFile, mdFile>>
    /\ UNCHANGED <<fsVars, ruleVars, perfVars, queue, prev, siteVars>>

\* rm("CHANGELOG.tmp"); rm("CHANGELOG.md"); mv("CHANGELOG.md.tmp", ...)
ClMove ==
    /\ Active /\ ~AtEnd /\ Cur.op = "clMove"
    /\ tmpFile' = Absent
    /\ mdFile' = mdTmpFile
    /\ mdTmpFile' = Absent
    /\ stack' = Advance
    /\ UNCHANGED <<task, fatal, log, fails, status, exitCode>>
    /\ UNCHANGED <<tagOut, rangeTags, logOut>>
    /\ UNCHANGED <<fsVars, ruleVars, perfVars, queue, prev, siteVars>>

\* ---------------------------------------------------------------------
\* target.gensite
\* ---------------------------------------------------------------------
\* the orders in which find can list the files that docs/ holds
Listings ==
    { l \in UNION {[1..k -> DocNames] : k \in 0..Cardinality(DocNames)} :
        \A i, j \in 1..Len(l) : l[i] = l[j] => i = j }

\* test("-f", filename) in a tree with the given files
IsFile(files, name) == name \in DOMAIN files /\ files[name] # Absent

\* text.replace(/.md\)/g, ".html)")
RECURSIVE LinkRewrite(_)
LinkRewrite(text) ==
    IF Len(text) < 2 THEN text
    ELSE IF text[2] = "md)"
        THEN <<".html)">> \o LinkRewrite(SubSeq(text, 3, Len(text)))
        ELSE <<Head(text)>> \o LinkRewrite(Tail(text))

\* .replace("README.html", "index.html"): the first occurrence only
RECURSIVE Retitle(_)
Retitle(text) ==
    IF Len(text) < 2 THEN text
    ELSE IF text[1] = "README" /\ text[2] = ".html)"
        THEN <<"index">> \o Tail(text)
        ELSE <<Head(text)>> \o Retitle(Tail(text))

\* filename.replace("README.md", "index.md")
WrittenTo(name) == IF name = "README.md" THEN "index.md" ELSE name

\* the body of the forEach callback
RewriteOne(files, name) ==
    IF IsFile(files, name)
      THEN [files EXCEPT ![WrittenTo(name)] =
                Retitle(LinkRewrite(FrontMatter \o files[name]))]
      ELSE files

\* find(docsDir).forEach(...)
RECURSIVE RewriteAll(_, _)
RewriteAll(files, list) ==
    IF list = <<>> THEN files
    ELSE CHOOSE out \in { RewriteAll(next, Tail(list)) :
                             next \in {RewriteOne(files, Head(list))} } : TRUE

\* rm("-r", docsDir); mkdir(docsDir); cp("-rf", "docs/*", docsDir)
SiteCopy ==
    /\ Active /\ ~AtEnd /\ Cur.op = "siteCopy"
    /\ \E l \in Listings :
        /\ siteList' = <<DocsDir>> \o l
        /\ siteOrig' = [n \in SiteNames |->
                           IF \E i \in 1..Len(l) : l[i] = n
                             THEN DocText(n) ELSE Absent]
    /\ siteFiles' = siteOrig'
    /\ stack' = Advance
    /\ UNCHANGED <<task, fatal, log, fails, status, exitCode>>
    /\ UNCHANGED <<fsVars, ruleVars, perfVars, queue, clVars, prev>>

\* the forEach over find(docsDir)
SiteRewrite ==
    /\ Active /\ ~AtEnd /\ Cur.op = "siteRewrite"
    /\ siteFiles' = RewriteAll(siteFiles, siteList)
    /\ stack' = Advance
    /\ UNCHANGED <<task, fatal, log, fails, status, exitCode>>
    /\ UNCHANGED <<siteList, siteOrig>>
    /\ UNCHANGED <<fsVars, ruleVars, perfVars, queue, clVars, prev>>

\* nothing left on the stack and no child process pending: node exits
Finish ==
    /\ status = "running" /\ stack = <<>> /\ queue = <<>>
    /\ inflight = {}
    /\ status' = "exited"
    /\ exitCode' = 0
    /\ UNCHANGED <<task, fatal, stack, log, fails>>
    /\ UNCHANGED <<fsVars, ruleVars, perfVars>>
    /\ UNCHANGED <<queue, clVars, prev, siteVars>>

Next ==
    \/ CallTask
    \/ Return
    \/ ExecSync
    \/ RuleInit
    \/ RuleCheck
    \/ RuleLoopEnd
    \/ RuleExit
    \/ PerfStart
    \/ Run1Callback
    \/ Run2Callback
    \/ Run3Callback
    \/ ClHeader
    \/ ClEntries
    \/ ClCat
    \/ ClMove
    \/ SiteCopy
    \/ SiteRewrite
    \/ Finish

Spec == Init /\ [][Next]_vars

\* node runs the script and its callbacks to the end: a step that can be
\* taken is taken, every external command coming back with some exit code
FairSpec == Spec /\ WF_vars(Next)

\* ---------------------------------------------------------------------
\* Several targets on one command line
\* ---------------------------------------------------------------------
\* targets that only run commands
CommandTargets == {"lint", "docs", "browserify"}

\* command lines naming perf and one of them, in either order
ArgLists ==
    {<<"perf", t>> : t \in CommandTargets}
        \cup {<<t, "perf">> : t \in CommandTargets}

InitArgs ==
    /\ \E args \in ArgLists : task = Head(args) /\ queue = Tail(args)
    /\ Loaded

\* shelljs/make calls the named targets one after the other
NextTarget ==
    /\ status = "running" /\ stack = <<>> /\ queue # <<>>
    /\ stack' = << Frame(Head(queue), "") >>
    /\ queue' = Tail(queue)
    /\ UNCHANGED <<task, fatal, log, fails, status, exitCode>>
    /\ UNCHANGED <<fsVars, ruleVars, perfVars, clVars, prev, siteVars>>

NextArgs ==
    \/ NextTarget
    \/ ExecSync
    \/ Return
    \/ PerfStart
    \/ Run1Callback
    \/ Run2Callback
    \/ Run3Callback
    \/ Finish

SpecArgs == InitArgs /\ [][NextArgs]_vars

\* ---------------------------------------------------------------------
\* The changelog target run in two processes, one after the other
\* ---------------------------------------------------------------------
InitTwice ==
    /\ task = "changelog"
    /\ queue = <<>>
    /\ Loaded

\* the process is over and the same command line is run again; the files
\* stay as the first process left them
Restart ==
    /\ status = "exited" /\ prev = <<>>
    /\ prev' = [tagOut |-> tagOut, logOut |-> logOut, md |-> mdFile,
                moved |-> (rangeTags # <<>> /\ tmpFile = Absent
                              /\ mdTmpFile = Absent)]
    /\ stack' = << Frame(task, "") >>
    /\ log' = <<>>
    /\ fails' = 0
    /\ status' = "running"
    /\ exitCode' = 0
    /\ tagOut' = <<>>
    /\ rangeTags' = <<>>
    /\ logOut' = <<>>
    /\ UNCHANGED <<task, fatal, queue, tmpFile, mdTmpFile, mdFile>>
    /\ UNCHANGED <<fsVars, ruleVars, perfVars, siteVars>>

NextTwice ==
    \/ ExecSync
    \/ ClHeader
    \/ ClEntries
    \/ ClCat
    \/ ClMove
    \/ Return
    \/ Finish
    \/ Restart

SpecTwice == InitTwice /\ [][NextTwice]_vars

\* ---------------------------------------------------------------------
\* Properties
\* ---------------------------------------------------------------------
Range(s) == {s[i] : i \in 1..Len(s)}
IsPrefix(s, t) == Len(s) <= Len(t) /\ \A i \in 1..Len(s) : s[i] = t[i]
Cmds == [i \in 1..Len(log) |-> log[i].cmd]
ReleaseRun == task \in ReleaseTypes

\* the release step a logged command belongs to
StepOf(e) ==
    IF e.by \in {"lint", "test", "browserify", "checkRuleFiles"} THEN 1
    ELSE IF e.cmd \in {"npm version " \o t : t \in ReleaseTypes} THEN 2
    ELSE IF e.by = "changelog" THEN 3
    ELSE IF e.cmd = "git push origin master --tags" THEN 4
    ELSE IF e.cmd = "npm publish" THEN 5
    ELSE 6

\* the forEach of checkRuleFiles has been left
RulesScanned == vi > ruleFiles
\* checkRuleFiles has run up to and including its final if
RulePassDone ==
    /\ RulesScanned
    /\ ~(Active /\ Top.fn = "checkRuleFiles")

\* C1: in a release run the commands of the six steps validate&test,
\* bump-version, update-changelog, push-tags, publish-package and
\* republish-site appear in that order, no step is skipped, the one-command
\* steps run once, the bump command differs between release types only in
\* its argument, and a step is started only when every command of the
\* steps before it exited with status 0.
C1_StrictForwardOrder ==
    ReleaseRun =>
        \A j \in 1..Len(log) :
            /\ \A i \in 1..(j - 1) :
                /\ StepOf(log[i]) <= StepOf(log[j])
                /\ StepOf(log[i]) < StepOf(log[j]) => log[i].code = 0
                /\ StepOf(log[j]) \in {2, 4, 5} => StepOf(log[i]) # StepOf(log[j])
            /\ \A k \in 1..(StepOf(log[j]) - 1) :
                \E i \in 1..(j - 1) : StepOf(log[i]) = k
            /\ StepOf(log[j]) = 2 => log[j].cmd = "npm version " \o task

\* C2: when the test gate of a release fails (a lint, test, coverage or
\* bundle command exits non-zero, or checkRuleFiles counted an error), no
\* command of a later step (version bump, changelog commit, tag push,
\* publish, site push) is ever run.
TestGateFailed ==
    \/ \E i \in 1..Len(log) : StepOf(log[i]) = 1 /\ log[i].code # 0
    \/ RulesScanned /\ errors # 0

C2_GateFailureHaltsRelease ==
    (ReleaseRun /\ TestGateFailed) =>
        \A j \in 1..Len(log) : StepOf(log[j]) = 1

\* C3: a command that exits non-zero is the last command of the run and the
\* process has exited with code 1; exit code 0 means every command
\* succeeded.
C3_FailFast ==
    /\ \A i \in 1..Len(log) :
          log[i].code # 0 =>
              /\ i = Len(log)
              /\ status = "exited"
              /\ exitCode = 1
    /\ (status = "exited" /\ exitCode = 0) =>
          \A i \in 1..Len(log) : log[i].code = 0

\* C4 (as claimed): a command of test's own body runs only after the
\* sub-tasks lint, checkRuleFiles and browserify are over, and a command of
\* release's own body only after test, changelog and gensite are over.
C4_SubtasksBeforeOwnBody ==
    \A j \in 1..Len(log) :
        /\ log[j].by = "test" =>
              /\ RulePassDone
              /\ \E i \in 1..(j - 1) : log[i].by = "lint"
              /\ \E i \in 1..(j - 1) : log[i].by = "browserify"
        /\ log[j].by = "release" =>
              /\ \E i \in 1..(j - 1) : log[i].by = "test"
              /\ \E i \in 1..(j - 1) : log[i].by = "changelog"
              /\ \E i \in 1..(j - 1) : log[i].by = "gensite"

\* the commands of a test run and of a release run, in the order in which
\* the statements are written
ExpectedTest ==
    << "jsonlint", "eslint lib", "eslint tests", "istanbul cover",
       "istanbul check-coverage", "browserify", "mocha-phantomjs" >>

ExpectedRelease(type) ==
    ExpectedTest \o
    << "npm version " \o type,
       "git tag", "git log", "git add CHANGELOG.md",
       "git commit --amend --no-edit",
       "git push origin master --tags", "npm publish",
       "git add -A .", "git commit",
       "git fetch origin && git rebase origin/master",
       "git push origin master" >>

\* C4 (amended): the invoked tasks and the own commands of a body run in
\* the order in which the body lists them, each invoked task running to its
\* end before the next statement: the commands of test and of a release are
\* always an initial part of the written order, with checkRuleFiles between
\* the lint commands and the coverage run.
C4_BodyOrder ==
    /\ task \in {"all", "test"} => IsPrefix(Cmds, ExpectedTest)
    /\ ReleaseRun => IsPrefix(Cmds, ExpectedRelease(task))
    /\ task \in {"all", "test"} \cup ReleaseTypes =>
          /\ Len(log) > 3 => RulePassDone
          /\ vi > 0 => Len(log) >= 3

C4_Witness ==
    /\ task = "minor"
    /\ Cmds = ExpectedRelease("minor")
    /\ status = "exited"
    /\ exitCode = 0
\* C5: checkRuleFiles looks at every rule file even after it counted an
\* error: while files are left the process keeps running whatever the
\* counter holds, every file already passed has its missing documentation,
\* setting and tests reported by name, and the exit with code 1 comes only
\* once the last file was checked.
C5_Exhaustive ==
    /\ (vi >= 1 /\ vi <= ruleFiles) => status = "running"
    /\ (status = "exited" /\ errors # 0) =>
          /\ exitCode = 1
          /\ vi = ruleFiles + 1
    /\ (RulePassDone /\ errors # 0) => (status = "exited" /\ exitCode = 1)
    /\ \A r \in 1..ruleFiles :
          r < vi =>
              /\ r \notin docs <=> <<"documentation", r>> \in Range(reported)
              /\ r \notin conf <=> <<"setting", r>> \in Range(reported)
              /\ r \notin tests <=> <<"tests", r>> \in Range(reported)

\* the first of two rules lacks its documentation, the second its tests;
\* both are reported and the run has failed
C5_Witness ==
    /\ ruleFiles = 2
    /\ docs = {2}
    /\ tests = {1}
    /\ <<"documentation", 1>> \in Range(reported)
    /\ <<"tests", 2>> \in Range(reported)
    /\ status = "exited"
    /\ exitCode = 1

\* C6 (as claimed): when every rule file has its documentation file, its
\* test file and its configuration entry, checkRuleFiles counts no error.
C6_DocTestConfSuffice ==
    (RulesScanned /\ vi >= 1
        /\ docs = 1..ruleFiles /\ tests = 1..ruleFiles /\ conf = 1..ruleFiles)
    => errors = 0

\* C6 (amended): when every rule file has its documentation file, a link to
\* that file in the documentation index, its test file and its
\* configuration entry, checkRuleFiles reports nothing, counts no error and
\* does not end the process: a run of checkRuleFiles alone exits with 0.
C6_AllPresentSucceeds ==
    (RulePassDone /\ vi >= 1
        /\ docs = 1..ruleFiles /\ index = 1..ruleFiles
        /\ tests = 1..ruleFiles /\ conf = 1..ruleFiles)
    => /\ errors = 0
       /\ reported = <<>>
       /\ (status = "exited" /\ exitCode = 1) => fails > 0
       /\ (task = "checkRuleFiles" /\ status = "exited") => exitCode = 0

C6_Witness ==
    /\ task = "checkRuleFiles"
    /\ ruleFiles = 2
    /\ docs = {1, 2} /\ index = {1, 2} /\ tests = {1, 2} /\ conf = {1, 2}
    /\ status = "exited"
    /\ exitCode = 0

\* the middle one of three values
MedianOf(s) ==
    CHOOSE v \in Range(s) :
        /\ Cardinality({i \in 1..Len(s) : s[i] <= v}) >= 2
        /\ Cardinality({i \in 1..Len(s) : s[i] >= v}) >= 2

PerfDecided == budget # <<>>

\* C7: once the three runs are in, perf ends the process with code 1
\* exactly when the median of the three times, whatever their order, is
\* greater than the limit; an equal median passes and the process ends with
\* 0. The times 100, 120, 90 give median 100 and pass the limit 150; the
\* times 200, 210, 190 give median 200 and fail it.
C7_MedianDecides ==
    PerfDecided =>
        /\ Len(echoed) = 3
        /\ results[2] = MedianOf(echoed)
        /\ budget.kind = "exceeded" <=> MedianOf(echoed) > max
        /\ budget.kind = "exceeded" <=> (status = "exited" /\ exitCode = 1)
        /\ status = "exited" => (exitCode = 1 <=> MedianOf(echoed) > max)
        /\ (echoed = <<100, 120, 90>> /\ max = 150) =>
              (results[2] = 100 /\ budget.kind = "ok")
        /\ (echoed = <<200, 210, 190>> /\ max = 150) =>
              (results[2] = 200 /\ budget.kind = "exceeded")

C7_Witness ==
    /\ echoed = <<200, 210, 190>>
    /\ max = 150
    /\ budget # <<>>
    /\ budget.kind = "exceeded"
    /\ status = "exited"
    /\ exitCode = 1

\* C8: the time shown in the final budget echo is the median that was
\* compared with the limit, and the limit shown is that limit.
C8_ReportShowsMedian ==
    PerfDecided => (budget.shown = results[2] /\ budget.limit = max)

\* C9: a performance run that exits non-zero ends perf with failure: no
\* further run is started and no budget decision is taken.
C9_FailedRunStopsGate ==
    \A i \in 1..Len(log) :
        (log[i].cmd = PerfCmd /\ log[i].code # 0) =>
            /\ Len(started) <= i
            /\ ~PerfDecided
            /\ status = "exited"
            /\ exitCode = 1

\* C10: perf starts its runs 1, 2, 3 in that order, run k+1 only when the
\* time of run k is recorded, never has two runs in flight, and takes its
\* decision once, with three times recorded and no run left in flight.
C10_State ==
    /\ Cardinality(inflight) <= 1
    /\ IsPrefix(started, <<1, 2, 3>>)
    /\ inflight \subseteq {Len(started)}
    /\ Len(echoed) = Len(started) - Cardinality(inflight)
    /\ PerfDecided => (started = <<1, 2, 3>> /\ inflight = {} /\ Len(echoed) = 3)
    /\ (task = "perf" /\ status = "exited") => PerfDecided

C10_Sequential ==
    /\ []C10_State
    /\ [][PerfDecided => (budget' = budget /\ echoed' = echoed)]_vars

C10_Witness ==
    /\ PerfDecided
    /\ started = <<1, 2, 3>>
    /\ Len(echoed) = 3
    /\ status = "exited"
\* C11: no two external commands run at the same time: a command is run
\* synchronously only while no performance run is in flight, at most one
\* performance run is in flight, and when the next target of the command
\* line is started every command of the targets before it has completed.
C11_NoTwoCommandsAtOnce ==
    /\ [](Cardinality(inflight) <= 1)
    /\ [][Len(log') > Len(log) /\ log'[Len(log')].by # "perf"
            => inflight = {}]_vars
    /\ [][queue' # queue => inflight = {}]_vars

\* this run's changelog has replaced CHANGELOG.md
ChangelogMoved ==
    rangeTags # <<>> /\ tmpFile = Absent /\ mdTmpFile = Absent

\* the tag names that git tag printed
TagNames == SelectSeq(tagOut, LAMBDA w : w # NL)
\* the lines that git log printed
LinesPrinted(out) ==
    IF out = <<>> THEN << <<>> >>
    ELSE <<FixLine, PullLine, BranchLine, DocsLine>>

MatchesAt(line, i, words) ==
    \A k \in 1..Len(words) :
        i + k - 1 <= Len(line) /\ line[i + k - 1] = words[k]
IsMergeLine(line) ==
    \E words \in {<<"Merge", "pull", "request">>, <<"Merge", "branch">>} :
        \E i \in 1..Len(line) : MatchesAt(line, i, words)

\* the lines of a list that are no merge lines, each with its line feed
RECURSIVE OrdinaryText(_)
OrdinaryText(lines) ==
    IF lines = <<>> THEN <<>>
    ELSE (IF IsMergeLine(Head(lines)) THEN <<>> ELSE Head(lines) \o <<NL>>)
         \o OrdinaryText(Tail(lines))

\* for each output of git log, the entry lines expected from it
EntryLines == [out \in LogOutputs |-> OrdinaryText(LinesPrinted(out))]

HeaderLines ==
    {<<t, "-", d>> : t \in {"v0.9.0", "v1.0.0", "v1.1.0", "undefined"},
                     d \in Dates}

\* C12: once changelog has replaced CHANGELOG.md, the file is a header
\* line, a blank line, the printed log lines that match neither "Merge pull
\* request" nor "Merge branch" in their order, a blank line, and then the
\* whole previous content of the file.
C12_EntryPrepended ==
    ChangelogMoved =>
        /\ SubSeq(mdFile, 1, 3) \in HeaderLines
        /\ \E old \in OldChangelogs :
              SubSeq(mdFile, 4, Len(mdFile)) =
                  <<NL>> \o <<NL>> \o EntryLines[logOut] \o <<NL>> \o old

C12_Witness ==
    /\ ChangelogMoved
    /\ tagOut = <<"v1.0.0", NL, "v1.1.0", NL>>
    /\ mdFile = <<"v1.1.0", "-", "March 3, 2014", NL, NL>>
                   \o FixLine \o <<NL>> \o DocsLine \o <<NL, NL>>
                   \o <<"v0.9.0", "-", "January 1, 2014", NL, NL,
                        "*", "Old", "(z)", NL>>

SiteLog == SelectSeq(log, LAMBDA e : e.by = "gensite")
SiteOrder ==
    << "git add -A .", "git commit",
       "git fetch origin && git rebase origin/master",
       "git push origin master" >>

\* C15: the site publisher runs stage, commit, fetch+rebase and push in
\* that order; the push is run only after the fetch+rebase command exited
\* with 0, and a failed fetch+rebase ends the run with exit code 1.
C15_PushNeedsRebase ==
    /\ IsPrefix([i \in 1..Len(SiteLog) |-> SiteLog[i].cmd], SiteOrder)
    /\ \A i \in 1..Len(SiteLog) :
          /\ SiteLog[i].cmd = SiteOrder[4] => SiteLog[3].code = 0
          /\ (SiteLog[i].cmd = SiteOrder[3] /\ SiteLog[i].code # 0) =>
                (status = "exited" /\ exitCode = 1)
\* the forEach of target.gensite has been left
SiteRewritten ==
    /\ siteList # <<>>
    /\ \A i \in 1..Len(stack) : stack[i].fn = "gensite" => stack[i].pc > 2

\* how often the front matter stands at the start of a text
RECURSIVE HeaderCount(_)
HeaderCount(text) ==
    IF IsPrefix(FrontMatter, text)
      THEN 1 + HeaderCount(SubSeq(text, Len(FrontMatter) + 1, Len(text)))
      ELSE 0

\* C16: after the rewrite step every plain file of the copied tree begins
\* with the front matter exactly once, holds no link ending in md) and is
\* no longer the text that was copied.
C16_AllRewritten ==
    SiteRewritten =>
        \A n \in SiteNames :
            IsFile(siteFiles, n) =>
                /\ HeaderCount(siteFiles[n]) = 1
                /\ "md)" \notin Range(siteFiles[n])
                /\ siteFiles[n] # siteOrig[n]

\* the rule files found
Rules == 1..ruleFiles

\* C17: once every rule has been looked at, errors is the number of rules
\* without documentation file, plus those with a documentation file but no
\* link in the index, plus those without default setting, plus those
\* without test file; checkRuleFiles ends the process with code 1 exactly
\* when that number is not 0.
C17_ErrorCount ==
    /\ RulesScanned =>
          errors = Cardinality(Rules \ docs)
                     + Cardinality((Rules \cap docs) \ index)
                     + Cardinality(Rules \ conf)
                     + Cardinality(Rules \ tests)
    /\ (RulePassDone /\ errors # 0) => (status = "exited" /\ exitCode = 1)
    /\ (RulePassDone /\ errors = 0 /\ fails = 0) =>
          ~(status = "exited" /\ exitCode = 1)
    /\ (task = "checkRuleFiles" /\ status = "exited") =>
          (exitCode = 1 <=> errors # 0)

C17_Witness ==
    /\ RulePassDone
    /\ ruleFiles = 2
    /\ 1 \notin docs /\ 1 \notin index
    /\ 2 \in docs /\ 2 \notin index
    /\ errors = 2
    /\ status = "exited" /\ exitCode = 1
\* git tag has listed fewer than two tags
FewTags == rangeTags # <<>> /\ Len(TagNames) < 2

\* C18: with fewer than two tags the changelog target does not end the
\* run with a failure of its own: when no external command failed, the run
\* goes on to its end with exit code 0, an entry (headed "undefined") has
\* been put in front of the old changelog and the commit has been amended.
C18_FewTagsUnguarded ==
    FewTags =>
        /\ (status = "exited" /\ exitCode = 1) => fails > 0
        /\ (status = "exited" /\ fails = 0) =>
              /\ exitCode = 0
              /\ ChangelogMoved
              /\ Head(mdFile) = "undefined"
              /\ \E old \in OldChangelogs :
                    /\ Len(mdFile) > Len(old)
                    /\ SubSeq(mdFile, Len(mdFile) - Len(old) + 1,
                              Len(mdFile)) = old
              /\ \E i \in 1..Len(log) :
                    /\ log[i].cmd = "git commit --amend --no-edit"
                    /\ log[i].code = 0

C18_Witness ==
    /\ task = "changelog"
    /\ FewTags
    /\ TagNames = <<"v1.0.0">>
    /\ status = "exited" /\ exitCode = 0
    /\ Head(mdFile) = "undefined"
    /\ log[Len(log)].cmd = "git commit --amend --no-edit"
\* no task has two invocations on the call stack
NoRecursion ==
    \A i, j \in 1..Len(stack) : stack[i].fn = stack[j].fn => i = j

\* C19: every run of a registered task comes to an end (the process exits,
\* after the last step or at a failure that ends it), and no task is ever
\* invoked while an invocation of the same task is still active.
C19_Terminates == <>(status = "exited") /\ []NoRecursion

C19_Witness ==
    /\ task = "major"
    /\ status = "exited" /\ exitCode = 0
    /\ Cmds = ExpectedRelease("major")
    /\ stack = <<>>
\* C20: in a release run the tag push and the publish command are run only
\* after git add CHANGELOG.md and then git commit --amend have both exited
\* with 0 on the new changelog, and CHANGELOG.tmp and CHANGELOG.md.tmp are
\* gone by then.
C20_CommittedBeforePush ==
    ReleaseRun =>
        \A j \in 1..Len(log) :
            log[j].cmd \in {"git push origin master --tags", "npm publish"} =>
                /\ ChangelogMoved
                /\ \E i \in 1..(j - 1), k \in 1..(j - 1) :
                      /\ i < k
                      /\ log[i].cmd = "git add CHANGELOG.md"
                      /\ log[i].code = 0
                      /\ log[k].cmd = "git commit --amend --no-edit"
                      /\ log[k].code = 0
====
